---- MODULE Spec2Model ----
(***************************************************************************)
(* The PaKeT escrow protocol of src/paket.py on one escrow account.        *)
(*                                                                         *)
(* The program builds transaction envelopes with the stellar_base Builder  *)
(* and hands them to the ledger.  The ledger itself is not part of the     *)
(* repository: the model keeps the validity checks a submission has to     *)
(* pass (time bounds, source account, sequence number, signer weight       *)
(* against the threshold of the operation category) and the effect of an   *)
(* applied transaction on the account's sequence number and signer set.    *)
(* "Accepted" means: the transaction passed those checks and consumed the  *)
(* sequence number.  Of the balances the model keeps whether the account   *)
(* holds a BUL trust line; amounts held and the result of the single       *)
(* operations are not modelled.                                            *)
(***************************************************************************)
EXTENDS Integers, Sequences, FiniteSets, TLC

\* ------------------------------------------------------------- bounds
MaxTime == 2
MaxSeq == 3
MaxAmount == 1
\* calls of prepare_escrow_transactions that return a plan for the account
MaxPlans == 2

\* ---------------------------------------------------------- constants
\* signer weights and thresholds of prepare_escrow_transactions
REFUND_WEIGHT == 2
C2_PaymentWeightMutant == REFUND_WEIGHT
PAYMENT_WEIGHT == 1
MERGE_WEIGHT == 2
C29_RecipientWeightMutant == MERGE_WEIGHT
RECIPIENT_WEIGHT == 1
C9_MasterWeightMutant == RECIPIENT_WEIGHT
MASTER_WEIGHT == 0
LOW_THRESHOLD == 1
MED_THRESHOLD == 2
HIGH_THRESHOLD == 3
\* sequence_delta arguments of gen_builder in prepare_escrow_transactions
BRANCH_DELTA == 2
MERGE_DELTA == 3
\* launch_paket: sequence = account sequence + 1
LAUNCH_DELTA == 1

ESCROW == "escrow"
LAUNCHER == "launcher"
COURIER == "courier"
RECIPIENT == "recipient"

Times == 0..MaxTime
Amounts == 0..MaxAmount
Kinds == {"set_options", "refund", "payment", "merge"}
\* the secret keys a submitter may sign with
Keys == {ESCROW, RECIPIENT}
\* the signatures on a submitted envelope: none, the escrow key's or the
\* recipient's
SigSets == {{}} \cup {{k} : k \in Keys}

NoHash == << >>
NoEnvelope ==
  [source |-> "", seq |-> 0, ops |-> << >>, time_bounds |-> << >>, memo |-> ""]

VARIABLES
  now,      \* wall clock and ledger close time
  flow,     \* which builder this run uses: "prepare" or "launch"
  acct,     \* the escrow account on the ledger
  pc,       \* position of the plan builder
  refund_envelope, payment_envelope, merge_envelope, set_options_envelope,
  args,     \* the arguments of the builder call
  plan,     \* the dict returned by the builder: kind -> envelope
  pkg,      \* the package record of db
  landed,   \* kinds of plan envelopes the ledger accepted, in order
  raced,    \* an escrow-sourced transaction landed between the sequence queries
  last,     \* the call made at the current instant, with the ledger's answer
  built     \* plans prepare_escrow_transactions has returned for the account

vars == <<now, flow, acct, pc, refund_envelope, payment_envelope, merge_envelope,
          set_options_envelope, args, plan, pkg, landed, raced, last, built>>

\* ------------------------------------------------- builder (stellar_base)
\* Builder(address=..., sequence=...): the state of a fresh builder
Builder(address, seq) ==
  [address |-> address, sequence |-> seq, ops |-> << >>, time_bounds |-> << >>,
   memo |-> ""]

\* source is the operation's own source account ("" when the call gives none)
append_payment_op(b, dest, amount, source) ==
  [b EXCEPT !.ops = Append(@, [type |-> "payment", dest |-> dest, amount |-> amount,
                                source |-> source])]

append_account_merge_op(b, dest) ==
  [b EXCEPT !.ops = Append(@, [type |-> "merge", dest |-> dest])]

append_signer_op(b, type, key, hash, weight) ==
  [b EXCEPT !.ops = Append(@, [type |-> "signer", signer_type |-> type,
                                key |-> key, hash |-> hash, weight |-> weight])]

append_thresholds_op(b, master, low, med, high) ==
  [b EXCEPT !.ops = Append(@, [type |-> "thresholds", master |-> master,
                                low |-> low, med |-> med, high |-> high])]

add_time_bounds(b, min_time) ==
  [b EXCEPT !.time_bounds = Append(@, [minTime |-> min_time, maxTime |-> 0])]

\* the unreachable rest of add_memo: builder.add_text_memo(memo)
C30_add_memoMutant(b, memo) == [b EXCEPT !.memo = memo]

\* add_memo returns before it touches the builder
add_memo(b, memo) == b

\* gen_te: the transaction carries the builder's sequence plus one (a
\* builder holds the account's current sequence, a transaction the next
\* one).  launch_paket relies on it: its branch builders get the account's
\* sequence + 1 and its set-options builder, submitted first, the account's
\* sequence.
gen_te(b) ==
  [source |-> b.address, seq |-> b.sequence + 1, ops |-> b.ops,
   time_bounds |-> b.time_bounds, memo |-> b.memo]

\* import_from_xdr: the builder of an envelope
import_from_xdr(te) ==
  [address |-> te.source, sequence |-> te.seq - 1, ops |-> te.ops,
   time_bounds |-> te.time_bounds, memo |-> te.memo]

C21_hash_metaMutant(te) == <<te.source, te.seq, Len(te.ops)>>

\* hash_meta: a function of source, sequence number, operations, time
\* bounds and memo; signatures are not hashed
hash_meta(te) == <<te.source, te.seq, te.ops, te.time_bounds, te.memo>>

\* gen_builder(address, sequence_delta): the sequence is read from the ledger
gen_builder(address, sequence_delta) == Builder(address, acct.seq + sequence_delta)

C12_get_bul_accountMutant(address, accept_untrusted) ==
  IF ~acct.exists THEN "AssertionError"
  ELSE IF ~acct.trust THEN "MissingTrust"
  ELSE "account"

\* get_bul_account(address, accept_untrusted): what the call comes to, the
\* account's details or the exception it raises
get_bul_account(address, accept_untrusted) ==
  IF ~acct.exists THEN "AssertionError"
  ELSE IF ~acct.trust /\ ~accept_untrusted THEN "MissingTrust"
  ELSE "account"


\* ------------------------------------------------------------ the ledger
\* A new account: master key weight 1, all thresholds 0, no other signer,
\* no trust line
NewAccount(seq) ==
  [exists |-> TRUE, seq |-> seq, master |-> 1, low |-> 0, med |-> 0, high |-> 0,
   signers |-> {}, trust |-> FALSE]

NoAccount ==
  [exists |-> FALSE, seq |-> 0, master |-> 0, low |-> 0, med |-> 0, high |-> 0,
   signers |-> {}, trust |-> FALSE]

RECURSIVE SumWeights(_)
SumWeights(S) ==
  IF S = {} THEN 0
  ELSE LET s == CHOOSE x \in S : TRUE IN s.weight + SumWeights(S \ {s})

\* The signers of account a that count for transaction te signed with keys
\* sigs: a key signer counts when its key signed, a pre-authorized
\* transaction signer counts when te is the transaction it hashes.
MatchingSigners(a, te, sigs) ==
  {s \in a.signers :
     \/ s.signer_type = "ed25519PublicKey" /\ s.key \in sigs
     \/ s.signer_type = "preAuthTx" /\ s.hash = hash_meta(te)}

Weight(a, te, sigs) ==
  (IF ESCROW \in sigs THEN a.master ELSE 0) + SumWeights(MatchingSigners(a, te, sigs))

\* The threshold category of an operation: payments and trust lines are
\* medium, account merge and changes of signers or thresholds are high,
\* the rest is low.
OpThreshold(a, op) ==
  CASE op.type \in {"payment", "trust"} -> a.med
    [] op.type \in {"merge", "signer", "thresholds"} -> a.high
    [] OTHER -> a.low

Max(S) == CHOOSE x \in S : \A y \in S : y <= x

Needed(a, te) == Max({a.low} \cup {OpThreshold(a, te.ops[i]) : i \in 1..Len(te.ops)})

\* The ledger's verdict on a submission, checked in the ledger's order.
CheckValid(a, t, te, sigs) ==
  CASE \E i \in 1..Len(te.time_bounds) : te.time_bounds[i].minTime > t -> "too_early"
    [] \E i \in 1..Len(te.time_bounds) :
         te.time_bounds[i].maxTime > 0 /\ te.time_bounds[i].maxTime < t -> "too_late"
    [] ~a.exists -> "no_account"
    [] te.seq # a.seq + 1 -> "bad_seq"
    [] Weight(a, te, sigs) = 0 \/ Weight(a, te, sigs) < Needed(a, te) -> "bad_auth"
    [] OTHER -> "ok"

ApplyOp(a, op) ==
  CASE op.type = "signer" ->
         LET rest == {s \in a.signers :
                        ~(s.signer_type = op.signer_type /\ s.key = op.key /\ s.hash = op.hash)}
             new == [signer_type |-> op.signer_type, key |-> op.key,
                     hash |-> op.hash, weight |-> op.weight]
         IN [a EXCEPT !.signers = IF op.weight > 0 THEN rest \cup {new} ELSE rest]
    [] op.type = "thresholds" ->
         [a EXCEPT !.master = op.master, !.low = op.low, !.med = op.med, !.high = op.high]
    [] op.type = "trust" -> [a EXCEPT !.trust = TRUE]
    [] op.type = "merge" -> NoAccount
    [] OTHER -> a

RECURSIVE ApplyOps(_, _)
ApplyOps(a, ops) ==
  IF ops = << >> THEN a ELSE ApplyOps(ApplyOp(a, Head(ops)), Tail(ops))

\* An accepted transaction consumes the sequence number and its own
\* pre-authorized signer entry, then its operations act on the account.
Apply(a, te) ==
  LET used == {s \in a.signers : s.signer_type = "preAuthTx" /\ s.hash = hash_meta(te)}
  IN ApplyOps([a EXCEPT !.seq = te.seq, !.signers = @ \ used], te.ops)

\* builder.submit(): the ledger's response to envelope te signed with sigs
Response(te, sigs) == CheckValid(acct, now, te, sigs)

\* response['status']: a rejection carries an HTTP status of 400, the response
\* of an accepted submission has no status field (0 here)
status(response) == IF response = "ok" THEN 0 ELSE 400

ERROR_STATUS == 300
C31_submitMutant(te, sigs) == ~(status(Response(te, sigs)) < ERROR_STATUS)

\* submit(builder): raises StellarTransactionFailed when the response carries
\* a status of 300 or more and returns the response otherwise; TRUE when it
\* returns
submit(te, sigs) == ~(status(Response(te, sigs)) >= ERROR_STATUS)


\* ------------------------------------------------------ program state
NoPlan == [k \in {} |-> NoEnvelope]
NoPkg == [exists |-> FALSE, launcher |-> "", recipient |-> "", custodian |-> "",
          deadline |-> 0, payment |-> 0, collateral |-> 0]
NoArgs == [amount |-> 0, deadline |-> 0, payment |-> 0, collateral |-> 0]
NoCall == [call |-> "none", kind |-> "", sigs |-> {}, result |-> "", shares |-> << >>,
           change |-> ""]

\* The outcome of handing te, signed with sigs, to the ledger from `call`.
Outcome(call, kind, te, sigs) ==
  [call |-> call, kind |-> kind, sigs |-> sigs, result |-> Response(te, sigs),
   shares |-> << >>, change |-> ""]

\* The secret keys a caller outside the builder can sign with: launch_paket
\* generates the escrow keypair itself and neither stores nor returns the seed.
HeldKeys == IF flow = "launch" THEN {RECIPIENT} ELSE Keys

Building == pc \in {"refund_built", "payment_built", "merge_built"}

Init ==
  /\ now = 0
  /\ flow \in {"prepare", "launch"}
  /\ acct = NoAccount
  /\ pc = "idle"
  /\ refund_envelope = NoEnvelope
  /\ payment_envelope = NoEnvelope
  /\ merge_envelope = NoEnvelope
  /\ set_options_envelope = NoEnvelope
  /\ args = NoArgs
  /\ plan = NoPlan
  /\ pkg = NoPkg
  /\ landed = << >>
  /\ raced = FALSE
  /\ last = NoCall
  /\ built = 0

\* ------------------------------------- prepare_escrow_transactions
\* Each gen_builder call reads the escrow account's sequence from the ledger,
\* so the call is four steps, one per builder.

\* No call is running and one may start: the first one, one after a failed
\* one, or one for an escrow_address that has fewer than max plans.  The
\* model follows the envelopes of the latest call: when a call starts, the
\* plan of the earlier one and the record of what landed of it are put aside.
Calling(max) == pc \in {"idle", "failed"} \/ (pc = "planned" /\ built < max)

\* gen_builder: get_bul_account(address, accept_untrusted=True) raises
QueryFails(max) ==
  /\ flow = "prepare"
  /\ (Calling(max) /\ pc # "failed") \/ Building
  /\ get_bul_account(ESCROW, TRUE) # "account"
  /\ pc' = "failed"
  /\ refund_envelope' = IF Building THEN refund_envelope ELSE NoEnvelope
  /\ payment_envelope' = IF Building THEN payment_envelope ELSE NoEnvelope
  /\ merge_envelope' = IF Building THEN merge_envelope ELSE NoEnvelope
  /\ set_options_envelope' = NoEnvelope
  /\ plan' = NoPlan
  /\ landed' = IF Building THEN landed ELSE << >>
  /\ raced' = IF Building THEN raced ELSE FALSE
  /\ UNCHANGED <<now, flow, acct, args, pkg, last, built>>

C3_RefundBuilderMutant(escrow_address, refundee_address, amount, min_time) ==
  add_memo(append_payment_op(gen_builder(escrow_address, BRANCH_DELTA),
                             refundee_address, amount, ""),
           "refund")

RefundBuilder(escrow_address, refundee_address, amount, min_time) ==
  add_memo(add_time_bounds(append_payment_op(gen_builder(escrow_address, BRANCH_DELTA),
                                             refundee_address, amount, ""),
                           min_time),
           "refund")

C1_PaymentBuilderMutant(escrow_address, payment_address, amount) ==
  add_memo(append_payment_op(gen_builder(escrow_address, MERGE_DELTA),
                             payment_address, amount, ""),
           "payment")

PaymentBuilder(escrow_address, payment_address, amount) ==
  add_memo(append_payment_op(gen_builder(escrow_address, BRANCH_DELTA),
                             payment_address, amount, ""),
           "payment")

MergeBuilder(escrow_address, refundee_address, min_time) ==
  add_time_bounds(append_account_merge_op(gen_builder(escrow_address, MERGE_DELTA),
                                          refundee_address),
                  min_time)

C5_SetOptionsBuilderMutant(escrow_address, recipient_address, refund_te, payment_te, merge_te) ==
  LET b0 == gen_builder(escrow_address, 0)
      b1 == append_signer_op(b0, "preAuthTx", "", hash_meta(payment_te), REFUND_WEIGHT)
      b2 == append_signer_op(b1, "preAuthTx", "", hash_meta(refund_te), PAYMENT_WEIGHT)
      b3 == append_signer_op(b2, "preAuthTx", "", hash_meta(merge_te), MERGE_WEIGHT)
      b4 == append_signer_op(b3, "ed25519PublicKey", recipient_address, NoHash,
                             RECIPIENT_WEIGHT)
      b5 == append_thresholds_op(b4, MASTER_WEIGHT, LOW_THRESHOLD, MED_THRESHOLD,
                                 HIGH_THRESHOLD)
  IN add_memo(b5, "freeze")

\* gen_builder without sequence_delta: the builder takes the account's sequence
SetOptionsBuilder(escrow_address, recipient_address, refund_te, payment_te, merge_te) ==
  LET b0 == gen_builder(escrow_address, 0)
      b1 == append_signer_op(b0, "preAuthTx", "", hash_meta(refund_te), REFUND_WEIGHT)
      b2 == append_signer_op(b1, "preAuthTx", "", hash_meta(payment_te), PAYMENT_WEIGHT)
      b3 == append_signer_op(b2, "preAuthTx", "", hash_meta(merge_te), MERGE_WEIGHT)
      b4 == append_signer_op(b3, "ed25519PublicKey", recipient_address, NoHash,
                             RECIPIENT_WEIGHT)
      b5 == append_thresholds_op(b4, MASTER_WEIGHT, LOW_THRESHOLD, MED_THRESHOLD,
                                 HIGH_THRESHOLD)
  IN add_memo(b5, "freeze")

PrepareRefund(amount, min_time, max) ==
  /\ flow = "prepare"
  /\ Calling(max)
  /\ get_bul_account(ESCROW, TRUE) = "account"
  /\ args' = [NoArgs EXCEPT !.amount = amount, !.deadline = min_time]
  /\ refund_envelope' = gen_te(RefundBuilder(ESCROW, LAUNCHER, amount, min_time))
  /\ payment_envelope' = NoEnvelope
  /\ merge_envelope' = NoEnvelope
  /\ set_options_envelope' = NoEnvelope
  /\ plan' = NoPlan
  /\ landed' = << >>
  /\ raced' = FALSE
  /\ pc' = "refund_built"
  /\ UNCHANGED <<now, flow, acct, pkg, last, built>>

PreparePayment ==
  /\ flow = "prepare"
  /\ pc = "refund_built"
  /\ get_bul_account(ESCROW, TRUE) = "account"
  /\ payment_envelope' = gen_te(PaymentBuilder(ESCROW, COURIER, args.amount))
  /\ pc' = "payment_built"
  /\ UNCHANGED <<now, flow, acct, refund_envelope, merge_envelope,
                 set_options_envelope, args, plan, pkg, landed, raced, last, built>>

PrepareMerge ==
  /\ flow = "prepare"
  /\ pc = "payment_built"
  /\ get_bul_account(ESCROW, TRUE) = "account"
  /\ merge_envelope' = gen_te(MergeBuilder(ESCROW, LAUNCHER, args.deadline))
  /\ pc' = "merge_built"
  /\ UNCHANGED <<now, flow, acct, refund_envelope, payment_envelope,
                 set_options_envelope, args, plan, pkg, landed, raced, last, built>>

C6_PrepareResultMutant(set_options_te, refund_te, payment_te, merge_te) ==
  [k \in Kinds \ {"merge"} |->
     CASE k = "set_options" -> set_options_te
       [] k = "refund" -> refund_te
       [] OTHER -> payment_te]

\* the returned dict
PrepareResult(set_options_te, refund_te, payment_te, merge_te) ==
  [k \in Kinds |->
     CASE k = "set_options" -> set_options_te
       [] k = "refund" -> refund_te
       [] k = "payment" -> payment_te
       [] OTHER -> merge_te]

C19_PrepareSetOptionsMutant ==
  /\ flow = "prepare"
  /\ pc = "merge_built"
  /\ acct.exists
  /\ LET te == gen_te(SetOptionsBuilder(ESCROW, RECIPIENT, refund_envelope,
                                        payment_envelope, merge_envelope))
     IN /\ set_options_envelope' = te
        /\ plan' = PrepareResult(te, refund_envelope, payment_envelope, merge_envelope)
        /\ acct' = IF submit(te, {ESCROW}) THEN Apply(acct, te) ELSE acct
  /\ pc' = "planned"
  /\ built' = built + 1
  /\ UNCHANGED <<now, flow, refund_envelope, payment_envelope, merge_envelope,
                 args, pkg, landed, raced, last>>

\* the set-options builder and the returned dict; nothing is submitted
PrepareSetOptions ==
  /\ flow = "prepare"
  /\ pc = "merge_built"
  /\ acct.exists
  /\ LET te == gen_te(SetOptionsBuilder(ESCROW, RECIPIENT, refund_envelope,
                                        payment_envelope, merge_envelope))
     IN /\ set_options_envelope' = te
        /\ plan' = PrepareResult(te, refund_envelope, payment_envelope, merge_envelope)
  /\ pc' = "planned"
  /\ built' = built + 1
  /\ UNCHANGED <<now, flow, acct, refund_envelope, payment_envelope, merge_envelope,
                 args, pkg, landed, raced, last>>


\* ------------------------------------------------------- launch_paket
\* Creation of the escrow account, submitted from the funding account.  The
\* ledger's answer depends on that account, which is outside the model.
LaunchCreate(payment, collateral, deadline, accepted) ==
  /\ flow = "launch"
  /\ pc = "idle"
  /\ args' = [NoArgs EXCEPT !.payment = payment, !.collateral = collateral,
                            !.deadline = deadline]
  /\ IF accepted
       THEN acct' = NewAccount(0) /\ pc' = "created"
       ELSE acct' = acct /\ pc' = "failed"
  /\ last' = [NoCall EXCEPT !.call = "launch_paket", !.kind = "create",
                            !.result = IF accepted THEN "ok" ELSE "rejected"]
  /\ UNCHANGED <<now, flow, refund_envelope, payment_envelope, merge_envelope,
                 set_options_envelope, plan, pkg, landed, raced, built>>

\* prepare_trust: a trust operation on a builder of the account's sequence
TrustBuilder(from_address) ==
  LET b == gen_builder(from_address, 0)
  IN add_memo([b EXCEPT !.ops = Append(@, [type |-> "trust"])], "trust BUL")

\* The trust transaction, signed with the escrow seed.  `accepted` is the
\* part of the ledger's answer the model does not decide (fee, reserve).
LaunchTrust(accepted) ==
  /\ flow = "launch"
  /\ pc = "created"
  /\ LET te == gen_te(import_from_xdr(gen_te(TrustBuilder(ESCROW))))
         ok == accepted /\ submit(te, {ESCROW})
     IN /\ acct' = IF ok THEN Apply(acct, te) ELSE acct
        /\ pc' = IF ok THEN "trusted" ELSE "failed"
        /\ last' = [Outcome("launch_paket", "trust", te, {ESCROW}) EXCEPT
                      !.result = IF accepted THEN @ ELSE "rejected"]
  /\ UNCHANGED <<now, flow, refund_envelope, payment_envelope, merge_envelope,
                 set_options_envelope, args, plan, pkg, landed, raced, built>>

LaunchRefundBuilder(launcher, payment, collateral, deadline, seq) ==
  add_memo(append_payment_op(Builder(ESCROW, seq), launcher, payment + collateral, ESCROW),
           "refund minTime")

C8_LaunchPaymentBuilderMutant(courier, payment, collateral, seq) ==
  add_memo(append_payment_op(Builder(ESCROW, seq), courier, payment, ESCROW), "payment")

LaunchPaymentBuilder(courier, payment, collateral, seq) ==
  add_memo(append_payment_op(Builder(ESCROW, seq), courier, payment + collateral, ESCROW),
           "payment")

LaunchSetOptionsBuilder(recipient, refund_te, payment_te) ==
  LET b0 == gen_builder(ESCROW, 0)
      b1 == append_signer_op(b0, "preAuthTx", "", hash_meta(refund_te), REFUND_WEIGHT)
      b2 == append_signer_op(b1, "preAuthTx", "", hash_meta(payment_te), PAYMENT_WEIGHT)
      b3 == append_signer_op(b2, "ed25519PublicKey", recipient, NoHash, RECIPIENT_WEIGHT)
  IN append_thresholds_op(b3, MASTER_WEIGHT, LOW_THRESHOLD, MED_THRESHOLD, HIGH_THRESHOLD)

\* package_details
LaunchResult(refund_te, payment_te) ==
  [k \in {"refund", "payment"} |-> IF k = "refund" THEN refund_te ELSE payment_te]

C26_LaunchSecureMutant(accepted) ==
  /\ flow = "launch"
  /\ pc = "trusted"
  /\ LET seq == acct.seq + LAUNCH_DELTA
         refund_te == gen_te(LaunchRefundBuilder(LAUNCHER, args.payment, args.collateral,
                                                 args.deadline, seq))
         payment_te == gen_te(LaunchPaymentBuilder(COURIER, args.payment,
                                                   args.collateral, seq))
         te == gen_te(LaunchSetOptionsBuilder(RECIPIENT, refund_te, payment_te))
         ok == accepted /\ submit(te, {ESCROW})
     IN /\ refund_envelope' = refund_te
        /\ payment_envelope' = payment_te
        /\ set_options_envelope' = te
        /\ acct' = IF ok THEN Apply(acct, te) ELSE acct
        /\ landed' = IF ok THEN Append(landed, "set_options") ELSE landed
        /\ pc' = IF ok THEN "planned" ELSE "failed"
        /\ plan' = IF ok THEN LaunchResult(refund_te, payment_te) ELSE plan
        /\ pkg' = IF TRUE
                    THEN [exists |-> TRUE, launcher |-> LAUNCHER, recipient |-> RECIPIENT,
                          custodian |-> LAUNCHER, deadline |-> args.deadline,
                          payment |-> args.payment, collateral |-> args.collateral]
                    ELSE pkg
        /\ last' = [Outcome("launch_paket", "set_options", te, {ESCROW}) EXCEPT
                      !.result = IF accepted THEN @ ELSE "rejected"]
  /\ UNCHANGED <<now, flow, merge_envelope, args, raced, built>>

\* The sequence query, the two branch envelopes, the signed set-options
\* submission and, when it is accepted, the package record.
LaunchSecure(accepted) ==
  /\ flow = "launch"
  /\ pc = "trusted"
  /\ LET seq == acct.seq + LAUNCH_DELTA
         refund_te == gen_te(LaunchRefundBuilder(LAUNCHER, args.payment, args.collateral,
                                                 args.deadline, seq))
         payment_te == gen_te(LaunchPaymentBuilder(COURIER, args.payment,
                                                   args.collateral, seq))
         te == gen_te(LaunchSetOptionsBuilder(RECIPIENT, refund_te, payment_te))
         ok == accepted /\ submit(te, {ESCROW})
     IN /\ refund_envelope' = refund_te
        /\ payment_envelope' = payment_te
        /\ set_options_envelope' = te
        /\ acct' = IF ok THEN Apply(acct, te) ELSE acct
        /\ landed' = IF ok THEN Append(landed, "set_options") ELSE landed
        /\ pc' = IF ok THEN "planned" ELSE "failed"
        /\ plan' = IF ok THEN LaunchResult(refund_te, payment_te) ELSE plan
        /\ pkg' = IF ok
                    THEN [exists |-> TRUE, launcher |-> LAUNCHER, recipient |-> RECIPIENT,
                          custodian |-> LAUNCHER, deadline |-> args.deadline,
                          payment |-> args.payment, collateral |-> args.collateral]
                    ELSE pkg
        /\ last' = [Outcome("launch_paket", "set_options", te, {ESCROW}) EXCEPT
                      !.result = IF accepted THEN @ ELSE "rejected"]
  /\ UNCHANGED <<now, flow, merge_envelope, args, raced, built>>


\* ------------------------------------------------- callers and the ledger
\* The ledger takes an accepted escrow-sourced transaction.
Land(te, kind, ok) ==
  /\ acct' = IF ok THEN Apply(acct, te) ELSE acct
  /\ landed' = IF ok /\ kind \in Kinds THEN Append(landed, kind) ELSE landed
  /\ raced' = (raced \/ (ok /\ Building))

\* The escrow account is created from outside (prepare_escrow_creation, signed
\* and submitted by the funding account).
CreateAccount ==
  /\ flow = "prepare"
  /\ ~acct.exists
  /\ landed = << >>
  /\ acct' = NewAccount(0)
  /\ UNCHANGED <<now, flow, pc, refund_envelope, payment_envelope, merge_envelope,
                 set_options_envelope, args, plan, pkg, landed, raced, last, built>>

\* submit_transaction_envelope(envelope): an envelope of the plan, signed
\* with any of the keys its submitter holds.
SubmitEnvelope(kind, sigs) ==
  /\ kind \in DOMAIN plan
  /\ sigs \subseteq HeldKeys
  /\ LET te == gen_te(import_from_xdr(plan[kind]))
     IN /\ last' = Outcome("submit_transaction_envelope", kind, te, sigs)
        /\ Land(te, kind, submit(te, sigs))
  /\ UNCHANGED <<now, flow, pc, refund_envelope, payment_envelope, merge_envelope,
                 set_options_envelope, args, plan, pkg, built>>

\* Operations of escrow-sourced transactions that are not part of the plan:
\* a low-category operation, a trust line (prepare_trust, medium category)
\* and a set-options that gives the master key weight 1 (high category).
ForeignOps ==
  { <<[type |-> "bump"]>>,
    <<[type |-> "trust"]>>,
    <<[type |-> "thresholds", master |-> 1, low |-> 0, med |-> 0, high |-> 0]>> }

ForeignKind(ops) == ops[1].type

\* submit_transaction_envelope(envelope) with an envelope built on the
\* account's current sequence (gen_builder without sequence_delta).
SubmitForeign(ops, sigs) ==
  /\ acct.exists
  /\ acct.seq < MaxSeq
  /\ sigs \subseteq HeldKeys
  /\ LET te == gen_te([gen_builder(ESCROW, 0) EXCEPT !.ops = ops])
     IN /\ last' = Outcome("submit_foreign", ForeignKind(ops), te, sigs)
        /\ Land(te, "foreign", submit(te, sigs))
  /\ UNCHANGED <<now, flow, pc, refund_envelope, payment_envelope, merge_envelope,
                 set_options_envelope, args, plan, pkg, built>>

\* An envelope that differs from a branch envelope of the plan in one place:
\* the destination, the amount (of a payment), the sequence number or the
\* time bounds.
Changes == {"dest", "amount", "seq-1", "seq-2", "time"}

Tamper(te, change) ==
  CASE change = "dest" -> [te EXCEPT !.ops[1].dest = "stranger"]
    [] change = "amount" /\ te.ops[1].type = "payment" ->
         [te EXCEPT !.ops[1].amount = @ + 1]
    [] change = "seq-1" -> [te EXCEPT !.seq = @ - 1]
    [] change = "seq-2" -> [te EXCEPT !.seq = @ - 2]
    [] change = "time" ->
         [te EXCEPT !.time_bounds = IF @ = << >> THEN <<[minTime |-> 1, maxTime |-> 0]>>
                                    ELSE << >>]
    [] OTHER -> [te EXCEPT !.ops[1].dest = "stranger"]

\* submit_transaction_envelope(envelope) with such an envelope
SubmitTampered(kind, change, sigs) ==
  /\ kind \in DOMAIN plan \ {"set_options"}
  /\ sigs \subseteq HeldKeys
  /\ LET te == Tamper(gen_te(import_from_xdr(plan[kind])), change)
     IN /\ last' = [Outcome("submit_tampered", kind, te, sigs) EXCEPT !.change = change]
        /\ Land(te, "foreign", submit(te, sigs))
  /\ UNCHANGED <<now, flow, pc, refund_envelope, payment_envelope, merge_envelope,
                 set_options_envelope, args, plan, pkg, built>>

\* refund(paket_id, refund_envelope): raises before the lower time bound,
\* otherwise submits the envelope as it is, unsigned.
TimeBoundRaises(b, t) ==
  \E i \in 1..Len(b.time_bounds) :
     \/ b.time_bounds[i].minTime > 0 /\ b.time_bounds[i].minTime > t
     \/ 0 < b.time_bounds[i].maxTime /\ b.time_bounds[i].maxTime < t

Refund ==
  /\ "refund" \in DOMAIN plan
  /\ LET b == add_memo(import_from_xdr(plan["refund"]), "refund")
         te == gen_te(b)
     IN IF TimeBoundRaises(b, now)
          THEN /\ last' = [Outcome("refund", "refund", te, {}) EXCEPT !.result = "raised"]
               /\ UNCHANGED <<acct, landed, raced>>
          ELSE /\ last' = Outcome("refund", "refund", te, {})
               /\ Land(te, "refund", submit(te, {}))
  /\ UNCHANGED <<now, flow, pc, refund_envelope, payment_envelope, merge_envelope,
                 set_options_envelope, args, plan, pkg, built>>

\* confirm_receipt(recipient_pubkey, payment_envelope): signs with the
\* recipient's seed and submits.
ConfirmReceipt ==
  /\ "payment" \in DOMAIN plan
  /\ LET te == gen_te(import_from_xdr(plan["payment"]))
     IN /\ last' = Outcome("confirm_receipt", "payment", te, {RECIPIENT})
        /\ Land(te, "payment", submit(te, {RECIPIENT}))
  /\ UNCHANGED <<now, flow, pc, refund_envelope, payment_envelope, merge_envelope,
                 set_options_envelope, args, plan, pkg, built>>

C22_AcceptPackageMutant(user) ==
  /\ pkg.exists
  /\ pkg' = [pkg EXCEPT !.custodian = user]
  /\ LET te == gen_te(import_from_xdr(plan["payment"]))
     IN /\ last' = Outcome("accept_package", "payment", te, {RECIPIENT})
        /\ Land(te, "payment", submit(te, {RECIPIENT}))
  /\ UNCHANGED <<now, flow, pc, refund_envelope, payment_envelope, merge_envelope,
                 set_options_envelope, args, plan, built>>

\* accept_package(user_pubkey, paket_id, payment_envelope): the custodian is
\* updated first; the recipient's call goes on to confirm_receipt.
AcceptPackage(user) ==
  /\ pkg.exists
  /\ pkg' = [pkg EXCEPT !.custodian = user]
  /\ IF pkg.recipient = user
       THEN LET te == gen_te(import_from_xdr(plan["payment"]))
            IN /\ last' = Outcome("accept_package", "payment", te, {RECIPIENT})
               /\ Land(te, "payment", submit(te, {RECIPIENT}))
       ELSE /\ last' = [NoCall EXCEPT !.call = "accept_package"]
            /\ UNCHANGED <<acct, landed, raced>>
  /\ UNCHANGED <<now, flow, pc, refund_envelope, payment_envelope, merge_envelope,
                 set_options_envelope, args, plan, built>>

\* relay_payment(*_, **__): whatever the arguments, here the two shares of a
\* launched package's courier leg, the call raises NotImplementedError.
RelayPayment(relayer_stroops, relayee_stroops) ==
  /\ pkg.exists
  /\ last' = [NoCall EXCEPT !.call = "relay_payment", !.kind = "relay",
                            !.result = "NotImplementedError",
                            !.shares = <<relayer_stroops, relayee_stroops>>]
  /\ UNCHANGED <<now, flow, acct, pc, refund_envelope, payment_envelope, merge_envelope,
                 set_options_envelope, args, plan, pkg, landed, raced, built>>

\* Time passes; the answer of an earlier instant is no longer on record.
Tick ==
  /\ now < MaxTime
  /\ now' = now + 1
  /\ last' = NoCall
  /\ UNCHANGED <<flow, acct, pc, refund_envelope, payment_envelope, merge_envelope,
                 set_options_envelope, args, plan, pkg, landed, raced, built>>

\* One plan for the escrow account: a call follows only a failed one.
Next ==
  \/ QueryFails(1)
  \/ \E amount \in Amounts, min_time \in Times : PrepareRefund(amount, min_time, 1)
  \/ PreparePayment
  \/ PrepareMerge
  \/ PrepareSetOptions
  \/ \E payment \in Amounts, collateral \in Amounts, deadline \in Times,
        accepted \in BOOLEAN : LaunchCreate(payment, collateral, deadline, accepted)
  \/ \E accepted \in BOOLEAN : LaunchTrust(accepted)
  \/ \E accepted \in BOOLEAN : LaunchSecure(accepted)
  \/ CreateAccount
  \/ \E kind \in Kinds, sigs \in SigSets : SubmitEnvelope(kind, sigs)
  \/ \E ops \in ForeignOps, sigs \in SigSets : SubmitForeign(ops, sigs)
  \/ Refund
  \/ ConfirmReceipt
  \/ \E user \in {COURIER, RECIPIENT} : AcceptPackage(user)
  \/ \E relayer_stroops \in Amounts, relayee_stroops \in Amounts :
       RelayPayment(relayer_stroops, relayee_stroops)
  \/ Tick

Spec == Init /\ [][Next]_vars

\* Plan creation on its own: prepare_escrow_transactions is called again for
\* an escrow_address it has returned a plan for, up to MaxPlans plans, and
\* the envelopes of the latest plan are submitted.
InitPlans == Init /\ flow = "prepare"

NextPlans ==
  \/ QueryFails(MaxPlans)
  \/ \E amount \in Amounts, min_time \in Times : PrepareRefund(amount, min_time, MaxPlans)
  \/ PreparePayment
  \/ PrepareMerge
  \/ PrepareSetOptions
  \/ CreateAccount
  \/ \E kind \in Kinds, sigs \in SigSets : SubmitEnvelope(kind, sigs)
  \/ Tick

SpecPlans == InitPlans /\ [][NextPlans]_vars

\* Altered envelopes: the plan of either builder, its own envelopes, and
\* envelopes that differ from a branch envelope in one place.
NextTamper ==
  \/ QueryFails(1)
  \/ \E amount \in Amounts, min_time \in Times : PrepareRefund(amount, min_time, 1)
  \/ PreparePayment
  \/ PrepareMerge
  \/ PrepareSetOptions
  \/ \E payment \in Amounts, collateral \in Amounts, deadline \in Times,
        accepted \in BOOLEAN : LaunchCreate(payment, collateral, deadline, accepted)
  \/ \E accepted \in BOOLEAN : LaunchTrust(accepted)
  \/ \E accepted \in BOOLEAN : LaunchSecure(accepted)
  \/ CreateAccount
  \/ \E kind \in Kinds, sigs \in SigSets : SubmitEnvelope(kind, sigs)
  \/ \E kind \in Kinds, change \in Changes, sigs \in SigSets :
       SubmitTampered(kind, change, sigs)
  \/ Tick

SpecTamper == Init /\ [][NextTamper]_vars


\* ---------------------------------------------------------------- claims
Landed(kind) == \E i \in 1..Len(landed) : landed[i] = kind
Locked == Landed("set_options")
Planned == pc = "planned"
\* the envelope a caller rebuilds from the returned XDR
Returned(kind) == gen_te(import_from_xdr(plan[kind]))
Rejections == {"too_early", "too_late", "no_account", "bad_seq", "bad_auth"}

C2_PaymentNeedsRecipient ==
  /\ (Locked /\ acct.exists /\ "payment" \in DOMAIN plan /\ ~Landed("payment"))
       => /\ Weight(acct, Returned("payment"), {}) = 1
          /\ Weight(acct, Returned("payment"), {ESCROW}) = 1
          /\ Weight(acct, Returned("payment"), {RECIPIENT}) = 2
          /\ Needed(acct, Returned("payment")) = 2
  /\ (Locked /\ last.kind = "payment" /\ RECIPIENT \notin last.sigs)
       => /\ last.result \in Rejections
          /\ (acct.exists /\ Returned("payment").seq = acct.seq + 1)
               => last.result = "bad_auth"
  /\ (Locked /\ last.kind = "payment" /\ last.result = "ok") => RECIPIENT \in last.sigs

C2_Witness ==
  /\ Locked
  /\ last.kind = "payment" /\ last.sigs = {} /\ last.result = "bad_auth"

\* C3: a refund envelope of prepare_escrow_transactions is never accepted
\* before the deadline: refund() raises without submitting, and a direct
\* submission is answered with the time-bound error.
C3_RefundTimelocked ==
  (flow = "prepare" /\ last.kind = "refund" /\ now < args.deadline)
    => /\ last.result # "ok"
       /\ last.call = "refund" => last.result = "raised"
       /\ last.call = "submit_transaction_envelope" => last.result = "too_early"

C3_Witness ==
  /\ flow = "prepare" /\ Locked
  /\ last.call = "refund" /\ last.result = "raised" /\ now < args.deadline

\* C4: with set-options landed and neither refund nor payment landed, an
\* unsigned submission of the refund envelope at or after the deadline is
\* accepted.  Stated for the account as set-options left it: nothing else
\* sourced from the escrow account has landed since.
C4_RefundAcceptedWhenDue ==
  ~ /\ Locked /\ ~raced
    /\ ~Landed("refund") /\ ~Landed("payment") /\ ~Landed("merge")
    /\ acct.exists /\ acct.seq = set_options_envelope.seq
    /\ last.kind = "refund" /\ last.sigs = {} /\ now >= args.deadline
    /\ last.result # "ok"

\* C5: the pre-authorized signer identities in the set-options envelope are
\* the hashes of the returned branch envelopes, re-hashed from what was
\* returned, and the set-options envelope exists only once the branch
\* envelopes do.
C5_HashesMatch ==
  /\ (Planned /\ flow = "prepare")
       => /\ plan["set_options"].ops[1].hash = hash_meta(Returned("refund"))
          /\ plan["set_options"].ops[2].hash = hash_meta(Returned("payment"))
          /\ plan["set_options"].ops[3].hash = hash_meta(Returned("merge"))
  /\ (Planned /\ flow = "launch")
       => /\ set_options_envelope.ops[1].hash = hash_meta(Returned("refund"))
          /\ set_options_envelope.ops[2].hash = hash_meta(Returned("payment"))
  /\ (flow = "prepare" /\ set_options_envelope # NoEnvelope)
       => /\ refund_envelope # NoEnvelope
          /\ payment_envelope # NoEnvelope
          /\ merge_envelope # NoEnvelope

C5_Witness ==
  /\ Planned /\ flow = "prepare" /\ raced
  /\ plan["refund"].time_bounds # << >>

\* C6 (as stated): every plan, of either builder, has exactly four envelopes,
\* each sourced from the escrow account.
C6_FourEnvelopes ==
  Planned => /\ DOMAIN plan = Kinds
             /\ \A k \in DOMAIN plan : plan[k].source = ESCROW

\* C6 (amended): prepare_escrow_transactions returns exactly four envelopes
\* (refund, payment, merge, set-options); launch_paket returns two (refund and
\* payment), builds no merge envelope and submits its set-options envelope
\* itself; every one of them is sourced from the escrow account.
C6_Envelopes ==
  /\ Planned => /\ flow = "prepare" => DOMAIN plan = Kinds
                /\ flow = "launch" => DOMAIN plan = {"refund", "payment"}
                /\ flow = "launch" => merge_envelope = NoEnvelope
                /\ set_options_envelope.source = ESCROW
                /\ \A k \in DOMAIN plan : plan[k].source = ESCROW /\ plan[k].ops # << >>
  /\ ~Planned => plan = NoPlan

C6_Witness == Planned /\ flow = "launch" /\ "refund" \in DOMAIN plan

\* C7: in every plan the refund and the merge envelope carry the lower time
\* bound deadline and no upper bound, the payment envelope carries none.
C7_TimeBounds ==
  Planned =>
    /\ plan["refund"].time_bounds = <<[minTime |-> args.deadline, maxTime |-> 0]>>
    /\ "merge" \in DOMAIN plan
         => plan["merge"].time_bounds = <<[minTime |-> args.deadline, maxTime |-> 0]>>
    /\ plan["payment"].time_bounds = << >>

\* C8: the refund envelope holds one payment of the whole amount from the
\* escrow to the launcher, the payment envelope one payment of the same
\* amount to the courier; launch_paket adds payment and collateral,
\* prepare_escrow_transactions is given the amount.
Total == IF flow = "launch" THEN args.payment + args.collateral ELSE args.amount

C8_Amounts ==
  Planned =>
    /\ Len(plan["refund"].ops) = 1
    /\ Len(plan["payment"].ops) = 1
    /\ \A k \in {"refund", "payment"} :
         /\ plan[k].ops[1].type = "payment"
         /\ plan[k].ops[1].amount = Total
         /\ plan[k].source = ESCROW
         /\ plan[k].ops[1].source \in {"", ESCROW}
    /\ plan["refund"].ops[1].dest = LAUNCHER
    /\ plan["payment"].ops[1].dest = COURIER

C8_Witness ==
  /\ Planned /\ flow = "launch" /\ args.payment > 0 /\ args.collateral > 0
  /\ plan["payment"].ops[1].amount = args.payment + args.collateral

\* C9: once set-options has landed the master key weighs 0: a transaction
\* signed with the escrow key alone is accepted in no category, and the
\* master weight stays 0.
ForeignEnvelope(ops) == gen_te([gen_builder(ESCROW, 0) EXCEPT !.ops = ops])

C9_MasterFrozen ==
  /\ (Locked /\ acct.exists)
       => /\ acct.master = 0
          /\ \A ops \in ForeignOps :
               CheckValid(acct, now, ForeignEnvelope(ops), {ESCROW}) = "bad_auth"
  /\ (Locked /\ last.call = "submit_foreign" /\ last.sigs = {ESCROW})
       => last.result # "ok"

C9_Witness ==
  /\ Locked
  /\ last.call = "submit_foreign" /\ last.kind = "bump" /\ last.sigs = {ESCROW}
  /\ last.result = "bad_auth"

\* C10: with set-options landed, the deadline reached and the sequence number
\* matching, the merge envelope is accepted without any signature.
C10_MergeSelfAuthorized ==
  ~ /\ Locked /\ acct.exists /\ "merge" \in DOMAIN plan
    /\ last.kind = "merge" /\ last.sigs = {} /\ now >= args.deadline
    /\ Returned("merge").seq = acct.seq + 1
    /\ last.result # "ok"

\* C11: plan creation turns down amount <= 0 and deadline <= now (the
\* deadline equal to the time of the call included) before it builds an
\* envelope: the step of prepare_escrow_transactions that builds the first
\* envelope is taken only with a positive amount and a later deadline.
C11_InvalidInputsRejected ==
  [][(flow = "prepare" /\ pc = "idle" /\ refund_envelope' # NoEnvelope)
       => (args'.amount > 0 /\ args'.deadline > now)]_vars

\* C12: when the escrow account does not exist the call fails at its first
\* sequence query, with no envelope built and nothing returned; the call
\* fails at a sequence query only when the account does not exist, an
\* account without the BUL trust line answers the query.
C12_QueryFailure ==
  /\ [][(flow = "prepare" /\ pc = "idle" /\ ~acct.exists /\ pc' # pc)
          => /\ pc' = "failed"
             /\ refund_envelope' = NoEnvelope /\ payment_envelope' = NoEnvelope
             /\ merge_envelope' = NoEnvelope /\ set_options_envelope' = NoEnvelope
             /\ plan' = NoPlan]_vars
  /\ [][(flow = "prepare" /\ pc # "failed" /\ pc' = "failed") => ~acct.exists]_vars
  /\ [](flow = "prepare" /\ pc = "failed" => plan = NoPlan)

\* a call on a missing account has failed
C12_Witness ==
  /\ flow = "prepare" /\ pc = "failed" /\ ~acct.exists
  /\ refund_envelope = NoEnvelope /\ plan = NoPlan

\* submit(builder) and refund(): the exception a call ends with, "" when it
\* returns.  Every failure is a StellarTransactionFailed around the response.
Raised(c) ==
  IF c.call = "none" \/ c.result \in {"", "ok"} THEN ""
  ELSE IF c.result = "NotImplementedError" THEN "NotImplementedError"
  ELSE "StellarTransactionFailed"

\* C13: a rejected set-options submission ends with an outcome of its own:
\* no rejected submission of another kind (account creation, trust, refund,
\* payment) ends with the same one.
C13_EscrowNotSecuredDistinct ==
  (last.kind = "set_options" /\ Raised(last) # "")
    => \A k \in {"create", "trust", "refund", "payment"} :
         \A r \in Rejections \cup {"rejected"} :
           Raised([last EXCEPT !.kind = k, !.result = r]) # Raised(last)

\* C14: a relay-plan creation whose two shares do not add up to the amount
\* of the package's courier leg fails with SplitMismatch and builds nothing;
\* one that succeeds has shares that add up to it.
C14_SplitMismatch ==
  last.call = "relay_payment"
    => /\ (last.shares[1] + last.shares[2] # Total) => last.result = "SplitMismatch"
       /\ (last.result = "ok") => last.shares[1] + last.shares[2] = Total

\* C15: once the payment or the refund of a package has been accepted, the
\* package record, its custodian included, does not change any more.
C15_TerminalStates ==
  [][(pkg.exists /\ (Landed("payment") \/ Landed("refund"))) => pkg' = pkg]_vars

\* C16: an accept_package call of the recipient whose payment submission is
\* turned down leaves the package record, its custodian included, as it was
\* before the call.
C16_FailedDeliveryKeepsCustody ==
  [][(pkg.exists /\ last'.call = "accept_package" /\ last'.kind = "payment"
        /\ last'.result # "ok")
       => pkg' = pkg]_vars

\* C17: a refund() call on a package succeeds, and so moves the package to
\* Refunded, only at or after the package's deadline and only while its
\* payment has not been accepted.
C17_RefundedWhenDue ==
  (pkg.exists /\ last.call = "refund" /\ last.result = "ok")
    => (now >= pkg.deadline /\ ~Landed("payment"))

\* C18: after the ritual (account created, trust line set, plan built by
\* prepare_escrow_transactions, set-options landed, no other transaction
\* sourced from the escrow account) the refund and payment envelopes carry
\* the account's next sequence number and the merge envelope the one after;
\* the payment signed by the recipient is accepted.
C18_Ritual ==
  /\ flow = "prepare" /\ ~raced
  /\ landed = <<"set_options">>
  /\ acct.exists /\ acct.trust
  /\ set_options_envelope.seq = 2 /\ acct.seq = 2

C18_SequencePlan ==
  C18_Ritual
    => /\ Returned("refund").seq = acct.seq + 1
       /\ Returned("payment").seq = acct.seq + 1
       /\ Returned("merge").seq = acct.seq + 2
       /\ (last.kind = "payment" /\ last.sigs = {RECIPIENT}) => last.result = "ok"

\* C19: no step of prepare_escrow_transactions, in a call that returns or in
\* one that fails, changes the escrow account on the ledger or the package
\* record, and none makes a submission.
C19_PrepareSubmitsNothing ==
  [][(flow = "prepare" /\ pc' # pc)
       => (acct' = acct /\ pkg' = pkg /\ last' = last)]_vars

\* a call has returned a plan and the account is as it was created
C19_Witness ==
  /\ flow = "prepare" /\ Planned /\ DOMAIN plan = Kinds
  /\ acct = NewAccount(0) /\ landed = << >> /\ ~pkg.exists

\* C20: over any sequence of plan creations no two plans are built for the
\* same escrow account.
C20_OnePlanPerEscrow == built <= 1

\* the weight the key signatures sigs give on their own
KeyWeight(a, sigs) ==
  (IF ESCROW \in sigs THEN a.master ELSE 0)
    + SumWeights({s \in a.signers : s.signer_type = "ed25519PublicKey" /\ s.key \in sigs})

\* the hash signers of account a that count for transaction te
HashSigners(a, te) == {s \in MatchingSigners(a, te, {}) : s.signer_type = "preAuthTx"}

\* C21: an escrow-sourced transaction that differs from the refund, payment
\* or merge envelope of the plan in destination, amount, sequence number or
\* time bounds gets no weight from any hash signer of the account, and it is
\* accepted only when the key signatures on it reach the threshold alone.
C21_HashSignerExact ==
  /\ [](\A kind \in DOMAIN plan \ {"set_options"} : \A change \in Changes :
          HashSigners(acct, Tamper(Returned(kind), change)) = {})
  /\ [][(last' # last /\ last'.call = "submit_tampered" /\ last'.result = "ok")
          => /\ KeyWeight(acct, last'.sigs) > 0
             /\ KeyWeight(acct, last'.sigs)
                  >= Needed(acct, Tamper(Returned(last'.kind), last'.change))]_vars

\* with set-options landed, an altered payment carrying the account's next
\* sequence number and the recipient's signature is turned down for its weight
C21_Witness ==
  /\ Locked /\ acct.exists
  /\ last.call = "submit_tampered" /\ last.kind = "payment"
  /\ last.change \in {"dest", "amount"} /\ last.sigs = {RECIPIENT}
  /\ last.result = "bad_auth"

\* C22: an accept_package call of a user who is not the recipient records
\* that user as the custodian and nothing else: no submission is made, the
\* ledger is untouched, and the package's parties, amounts, deadline and
\* stored envelopes are as before.
C22_CourierHandoff ==
  [][(pkg.exists /\ last'.call = "accept_package" /\ pkg'.custodian # pkg.recipient)
       => /\ pkg' = [pkg EXCEPT !.custodian = COURIER]
          /\ last'.kind = "" /\ last'.result = "" /\ last'.sigs = {}
          /\ acct' = acct /\ landed' = landed /\ plan' = plan]_vars

\* the courier has taken the package over from the launcher
C22_Witness ==
  /\ pkg.exists /\ pkg.custodian = COURIER /\ pkg.launcher = LAUNCHER
  /\ last.call = "accept_package" /\ last.result = ""
  /\ landed = <<"set_options">>

\* C23: a relay-plan creation whose two shares add up to the amount of the
\* package's courier leg succeeds and yields a plan.
C23_RelayYieldsPlan ==
  (last.call = "relay_payment" /\ last.shares[1] + last.shares[2] = Total)
    => (last.result = "ok" /\ Raised(last) = "")

\* C24: once the refund has landed every later submission of the payment
\* envelope is rejected, with the recipient's signature too, and once the
\* payment has landed every later submission of the refund envelope is
\* rejected, after the deadline too.
C24_RefundPaymentRace ==
  /\ (Landed("refund") /\ last.kind = "payment") => last.result # "ok"
  /\ (Landed("payment") /\ last.kind = "refund") => last.result # "ok"

\* C25: with set-options landed, the deadline reached and neither refund nor
\* payment landed, the refund envelope is acceptable as it is; no transaction
\* of the escrow account signed by the recipient alone is accepted.
C25_RefundStaysAvailable ==
  /\ (Locked /\ acct.exists /\ now >= args.deadline
        /\ ~Landed("refund") /\ ~Landed("payment") /\ ~Landed("merge"))
       => CheckValid(acct, now, Returned("refund"), {}) = "ok"
  /\ (Locked /\ last.call = "submit_foreign" /\ last.sigs = {RECIPIENT})
       => last.result # "ok"

\* C26: launch_paket submits the account creation, the trust transaction and
\* the set-options transaction in that order, stops at the first one that is
\* turned down, and creates the package record only when all three were
\* accepted.
C26_LaunchOrder ==
  /\ [](flow = "launch"
          => /\ pkg.exists <=> pc = "planned"
             /\ pkg.exists => (Landed("set_options") /\ acct.exists /\ acct.trust)
             /\ pc = "failed" => (plan = NoPlan /\ ~Landed("set_options"))
             /\ acct.trust => acct.exists
             /\ set_options_envelope # NoEnvelope => acct.trust)
  /\ [][(flow = "launch" /\ pc' # pc)
          => /\ last'.call = "launch_paket"
             /\ \/ pc = "idle" /\ last'.kind = "create"
                \/ pc = "created" /\ last'.kind = "trust"
                \/ pc = "trusted" /\ last'.kind = "set_options"
             /\ pc' = "failed" <=> last'.result # "ok"
             /\ pkg'.exists <=> (pc = "trusted" /\ last'.result = "ok")]_vars

\* creation and trust were accepted and set-options was turned down
C26_Witness ==
  /\ flow = "launch" /\ pc = "failed" /\ acct.exists /\ acct.trust
  /\ last.call = "launch_paket" /\ last.kind = "set_options" /\ last.result # "ok"
  /\ ~pkg.exists

\* C27: once a transaction sourced from the escrow account that is not a step
\* of the plan has landed after the plan's sequence query, no submission of
\* the refund or the payment envelope is accepted.  The account's sequence
\* advances by one with every accepted transaction, so the number of such
\* transactions is the distance from the queried sequence less the number of
\* accepted plan steps.
Baseline == set_options_envelope.seq - 1
Interleaved == acct.seq - Baseline - Len(landed)

C27_InterleavedBlocksBranch ==
  (Planned /\ ~raced /\ acct.exists /\ Interleaved > 0
     /\ last.call = "submit_transaction_envelope"
     /\ last.kind \in {"refund", "payment"})
    => last.result # "ok"

\* C28: in every plan returned by prepare_escrow_transactions the refund and
\* the payment carry the same sequence number, the merge carries that number
\* plus one and set-options a smaller one, whatever lands on the ledger
\* between the sequence queries of the call.
C28_OneBaseline ==
  (flow = "prepare" /\ Planned)
    => /\ Returned("payment").seq = Returned("refund").seq
       /\ Returned("merge").seq = Returned("refund").seq + 1
       /\ Returned("set_options").seq < Returned("refund").seq

\* C29: the set-options step of a plan of prepare_escrow_transactions leaves
\* the escrow account with exactly the signers refund hash 2, payment hash 1,
\* merge hash 2 and recipient key 1, master weight 0 and thresholds 1, 2, 3.
\* From then on a transaction that is not one of the three envelopes collects
\* a weight of at most 1 even when every key signs it, and none with a medium-
\* or high-category operation is accepted.
C29_Signers ==
  { [signer_type |-> "preAuthTx", key |-> "", hash |-> hash_meta(Returned("refund")),
     weight |-> 2],
    [signer_type |-> "preAuthTx", key |-> "", hash |-> hash_meta(Returned("payment")),
     weight |-> 1],
    [signer_type |-> "preAuthTx", key |-> "", hash |-> hash_meta(Returned("merge")),
     weight |-> 2],
    [signer_type |-> "ed25519PublicKey", key |-> RECIPIENT, hash |-> NoHash,
     weight |-> 1] }

C29_Others ==
  {gen_te([gen_builder(ESCROW, 0) EXCEPT !.ops = ops]) : ops \in ForeignOps}
    \cup {Tamper(Returned(kind), change) :
            kind \in DOMAIN plan \ {"set_options"}, change \in Changes}

C29_LockedSigners ==
  /\ [][(flow = "prepare" /\ landed' = Append(landed, "set_options"))
          => /\ acct'.signers = C29_Signers
             /\ acct'.master = 0
             /\ acct'.low = 1 /\ acct'.med = 2 /\ acct'.high = 3]_vars
  /\ []((flow = "prepare" /\ Locked /\ acct.exists)
          => /\ acct.signers \subseteq C29_Signers
             /\ acct.master = 0
             /\ acct.low = 1 /\ acct.med = 2 /\ acct.high = 3
             /\ \A te \in C29_Others :
                  /\ Weight(acct, te, Keys) <= 1
                  /\ Needed(acct, te) > 1 => CheckValid(acct, now, te, Keys) # "ok")
  /\ []((flow = "prepare" /\ Locked /\ last.call = "submit_foreign"
           /\ last.kind \in {"trust", "thresholds"})
          => last.result # "ok")

\* after set-options the recipient signs a trust-line transaction of the
\* escrow account, which is turned down for its weight
C29_Witness ==
  /\ flow = "prepare" /\ Locked /\ acct.exists
  /\ last.call = "submit_foreign" /\ last.kind = "trust"
  /\ last.sigs = {RECIPIENT} /\ last.result = "bad_auth"

\* C30: add_memo leaves every builder as it was.  The transaction refund()
\* hands to the ledger is the stored refund envelope, with the hash that
\* set-options registered as a signer of weight 2, and the ledger answers it
\* as it would answer the stored envelope; the envelopes of a plan, built with
\* calls of add_memo, carry no memo.
C30_Submitted == gen_te(add_memo(import_from_xdr(plan["refund"]), "refund"))

C30_RefundUnmodified ==
  /\ []("refund" \in DOMAIN plan
          => /\ C30_Submitted = plan["refund"]
             /\ hash_meta(C30_Submitted) = hash_meta(refund_envelope)
             /\ \E i \in 1..Len(set_options_envelope.ops) :
                  /\ set_options_envelope.ops[i].type = "signer"
                  /\ set_options_envelope.ops[i].hash = hash_meta(C30_Submitted)
                  /\ set_options_envelope.ops[i].weight = REFUND_WEIGHT
             /\ \A kind \in DOMAIN plan : plan[kind].memo = "")
  /\ [](/\ refund_envelope.memo = ""
        /\ payment_envelope.memo = ""
        /\ merge_envelope.memo = ""
        /\ set_options_envelope.memo = "")
  /\ [][(last' # last /\ last'.call = "refund" /\ last'.result # "raised")
          => last'.result = CheckValid(acct, now, Returned("refund"), {})]_vars

\* refund() called after set-options, without a signature, and accepted on
\* the weight of the registered hash
C30_Witness ==
  /\ Locked /\ Landed("refund") /\ pkg.exists
  /\ last.call = "refund" /\ last.sigs = {} /\ last.result = "ok"
  /\ acct.exists /\ acct.seq = Returned("refund").seq

\* C31: submit raises StellarTransactionFailed exactly when the ledger's
\* response carries a status of 300 or more.  A call of launch_paket,
\* confirm_receipt, refund or submit_transaction_envelope whose submission
\* the ledger turned down raises and leaves the escrow account, the accepted
\* transactions and the package record as they were; a call that returns has
\* had its transaction accepted by the ledger.
Submitters ==
  {"launch_paket", "confirm_receipt", "refund", "submit_transaction_envelope",
   "submit_foreign", "submit_tampered"}

C31_RejectedRaises ==
  /\ [](last.call \in Submitters
          => /\ status(last.result) >= ERROR_STATUS <=> Raised(last) = "StellarTransactionFailed"
             /\ Raised(last) = "" <=> last.result = "ok")
  /\ [][(last' # last /\ last'.call \in Submitters)
          => /\ Raised(last') = "StellarTransactionFailed"
                  => /\ acct' = acct /\ landed' = landed /\ pkg' = pkg
                     /\ flow = "launch" /\ last'.call = "launch_paket" => pc' = "failed"
             /\ Raised(last') = "" => acct' # acct]_vars

\* the payment envelope submitted unsigned after set-options: the ledger
\* answers with status 400 and the call raises
C31_Witness ==
  /\ Locked /\ acct.exists
  /\ last.call = "submit_transaction_envelope" /\ last.kind = "payment"
  /\ last.sigs = {} /\ last.result = "bad_auth"
  /\ status(last.result) = 400 /\ Raised(last) = "StellarTransactionFailed"

====
